---- MODULE Spec2Model ----
(***************************************************************************)
(* A model of the seeded decoders of feanor-serde:                         *)
(*   - DeserializeSeedSeq            (src/src/seq.rs)                      *)
(*   - DeserializeSeedDependentTuple (src/src/dependent_tuple.rs)          *)
(*   - impl_deserialize_seed_for_dependent_struct!, visit_map              *)
(*                                   (src/src/rust_struct.rs)              *)
(* The decoding context (serde's SeqAccess / MapAccess) is the format      *)
(* collaborator: it is modelled as a cursor over the raw input, and any of *)
(* its calls may fail with an error of its own.                            *)
(***************************************************************************)
EXTENDS Integers, Sequences, FiniteSets, TLC

VARIABLES
    decoder,      \* the top-level seed: "seq" | "tuple" | "struct" (map) |
                  \* "struct_seq" (positional) | "enum" | "newtype"
    pc,           \* control position of the running visitor(s)
    build,        \* "debug" (overflow checks on) | "release" (wrapping)
    arg,          \* the arguments of the top-level decode call, never changed
    seq_in,       \* SeqAccess of the sequence region: raw elements not yet read
    seeds,        \* ResultVisitor.seeds of seq.rs: the seed iterator
    result,       \* local `result` of seq.rs visit_seq
    current_len,  \* local `current_len` of seq.rs visit_seq
    tup_left,     \* SeqAccess of the tuple region: elements not yet read
    first,        \* local `first` of dependent_tuple.rs visit_seq (Option)
    ret,          \* value handed back by the nested seed of tuple element 1
    map_in,       \* MapAccess: entries whose value has not been consumed
    pending,      \* MapAccess: a key was read and its value is still unread
    fld,          \* locals `$field: Option<$type>` of rust_struct.rs visit_map
    encountered_fields, \* local of rust_struct.rs visit_seq (positional)
    variant,      \* local `variant` of rust_enum.rs visit_enum: .0, once read
    log,          \* every call made on the context, seeds, collector, derive
    outcome       \* what the top-level decode call returned

vars == <<decoder, pc, build, arg, seq_in, seeds, result, current_len,
          tup_left, first, ret, map_in, pending, fld, encountered_fields,
          variant, log, outcome>>

(***************************************************************************)
(* Bounds of the model.                                                    *)
(***************************************************************************)
MaxLen == 3        \* longest raw input sequence
MaxSeeds == 4      \* longest finite seed stream
MaxEntries == 3    \* most entries of an input map

(***************************************************************************)
(* Values.                                                                 *)
(***************************************************************************)
\* seq.rs testdata(): [], [1, 3], [1, 3, 4]
ElemVals == {1, 3, 4}

\* LeafDeserializeSeed { mask_with }; PhantomData is the seed with mask 0.
Masks == {0, 1}

\* mask_with ^ raw, for mask_with in {0, 1}
LeafDeserialize(mask, raw) ==
    IF mask = 0 THEN raw
    ELSE IF raw % 2 = 0 THEN raw + 1 ELSE raw - 1

SeqsUpTo(S, n) == UNION {[1..k -> S] : k \in 0..n}

(***************************************************************************)
(* Results of a decode call.  All have the same fields.                    *)
(***************************************************************************)
NoOutcome ==
    [kind |-> "none", val |-> <<>>, len |-> 0, msg |-> "", exp |-> 0,
     wrapped |-> FALSE, name |-> ""]

Ok(v) == [NoOutcome EXCEPT !.kind = "Ok", !.val = v]

\* Error::invalid_length(len, &msg-with-exp)
InvalidLength(len, msg, exp, wrapped) ==
    [NoOutcome EXCEPT !.kind = "InvalidLength", !.len = len, !.msg = msg,
                      !.exp = exp, !.wrapped = wrapped]

\* the context's error dropped and an empty value returned in its place
CollaboratorSwallowed(why) == Ok(<<>>)

\* an error of the context itself; name says what raised it
Collaborator(why) == [NoOutcome EXCEPT !.kind = "Collaborator", !.name = why]

\* the thread panicked: no Result is returned at all
Panic(why) == [NoOutcome EXCEPT !.kind = "Panic", !.name = why]

\* Option<T0::Value>
None == [some |-> FALSE, v |-> 0]
Some(x) == [some |-> TRUE, v |-> x]

Event(op, a, r) == [op |-> op, a |-> a, r |-> r]

(***************************************************************************)
(* Seed streams: a finite iterator, or repeat(seed).                       *)
(***************************************************************************)
FiniteSeeds(s) == [inf |-> FALSE, items |-> s]
RepeatSeeds(m) == [inf |-> TRUE, items |-> <<m>>]

\* Iterator::next called twice: one seed is pulled and thrown away
SeedsNextTwice(st) ==
    IF st.inf THEN [some |-> TRUE, seed |-> st.items[1], rest |-> st]
    ELSE IF st.items = <<>> THEN [some |-> FALSE, seed |-> 0, rest |-> st]
    ELSE [some |-> TRUE, seed |-> Head(st.items),
          rest |-> FiniteSeeds(IF Len(st.items) >= 2
                               THEN Tail(Tail(st.items)) ELSE <<>>)]

\* an iterator whose repeat(seed) stream reports its end at once
SeedsNextRepeatEnds(st) ==
    IF st.inf \/ st.items = <<>> THEN [some |-> FALSE, seed |-> 0, rest |-> st]
    ELSE [some |-> TRUE, seed |-> Head(st.items),
          rest |-> FiniteSeeds(Tail(st.items))]

\* self.seeds.next(), seq.rs line 140
SeedsNext(st) ==
    IF st.inf THEN [some |-> TRUE, seed |-> st.items[1], rest |-> st]
    ELSE IF st.items = <<>> THEN [some |-> FALSE, seed |-> 0, rest |-> st]
    ELSE [some |-> TRUE, seed |-> Head(st.items),
          rest |-> FiniteSeeds(Tail(st.items))]

\* the collector closure: push (the tests) or push to the front
Collector(kind, acc, el) ==
    IF kind = "push" THEN Append(acc, el) ELSE <<el>> \o acc

\* line 144 with the collector's result thrown away
AccumulateDropped(acc, el) == acc

\* seq.rs line 144: result = (self.collector)(result, el)
Accumulate(acc, el) == Collector(arg.collector, acc, el)

\* current_len - 1 on usize: wraps to usize::MAX (wrapped = TRUE) at 0
UsizeSub1(n) ==
    IF n >= 1 THEN [wrapped |-> FALSE, v |-> n - 1]
    ELSE [wrapped |-> TRUE, v |-> 0]

(***************************************************************************)
(* Returning from the sequence visitor: to the caller of the top-level     *)
(* decode, or into the dependent tuple whose element 1 it decodes.         *)
(***************************************************************************)
SeqReturn(o) ==
    IF decoder = "tuple"
    THEN pc' = "tup_ret" /\ ret' = o /\ outcome' = outcome
    ELSE pc' = "done" /\ outcome' = o /\ ret' = ret

(***************************************************************************)
(* seq.rs visit_seq, one iteration of `while let Some(seed) = seeds.next()`*)
(***************************************************************************)
SeqIterate ==
    /\ pc = "seq_loop"
    /\ SeedsNext(seeds).some
    /\ LET nx == SeedsNext(seeds)
           pulled == Event("seeds.next", nx.seed, "some")
       IN
       /\ seeds' = nx.rest
       /\ \E fail \in BOOLEAN :
            IF fail
            THEN \* seq.next_element_seed(seed)? returns the context's error
                 /\ SeqReturn(Collaborator("context"))
                 /\ log' = log \o <<pulled,
                                    Event("next_element_seed", nx.seed, "err")>>
                 /\ UNCHANGED <<seq_in, result, current_len>>
            ELSE IF seq_in = <<>>
            THEN \* el = None: return Ok(result)
                 /\ SeqReturn(Ok(result))
                 /\ log' = log \o <<pulled,
                                    Event("next_element_seed", nx.seed, "none")>>
                 /\ UNCHANGED <<seq_in, result, current_len>>
            ELSE LET el == LeafDeserialize(nx.seed, Head(seq_in)) IN
                 /\ seq_in' = Tail(seq_in)
                 /\ current_len' = current_len + 1
                 /\ result' = Accumulate(result, el)
                 /\ log' = log \o <<pulled,
                                    Event("next_element_seed", nx.seed, "some"),
                                    Event("collector", el, "")>>
                 /\ UNCHANGED <<pc, ret, outcome>>
    /\ UNCHANGED <<decoder, build, arg, encountered_fields, variant,
                   tup_left, first, map_in, pending, fld>>

(***************************************************************************)
(* seq.rs visit_seq, line 149: the seed stream ended before the input did. *)
(***************************************************************************)
SeqExhausted ==
    /\ pc = "seq_loop"
    /\ ~SeedsNext(seeds).some
    /\ LET e == UsizeSub1(current_len) IN
       IF e.wrapped /\ build = "debug"
       THEN SeqReturn(Panic("attempt to subtract with overflow"))
       ELSE SeqReturn(InvalidLength(current_len,
                        "a sequence of length at most", e.v, e.wrapped))
    /\ log' = Append(log, Event("seeds.next", 0, "none"))
    /\ UNCHANGED <<decoder, build, arg, encountered_fields, variant,
                   seq_in, seeds, result, current_len,
                   tup_left, first, map_in, pending, fld>>

(***************************************************************************)
(* DeserializeSeedSeq::new(seeds, initial, collector).deserialize(de)      *)
(***************************************************************************)
SeqArgs ==
    [elems : SeqsUpTo(ElemVals, MaxLen),
     seeds : {FiniteSeeds(s) : s \in SeqsUpTo(Masks, MaxSeeds)}
             \cup {RepeatSeeds(m) : m \in Masks},
     initial : {<<>>, <<0>>},
     collector : {"push", "push_front"}]

InitSeq ==
    /\ decoder = "seq"
    /\ build \in {"debug", "release"}
    /\ arg \in SeqArgs
    /\ pc = "seq_loop"
    /\ seq_in = arg.elems
    /\ seeds = arg.seeds
    /\ result = arg.initial
    /\ current_len = 0
    /\ tup_left = 0
    /\ first = None
    /\ ret = NoOutcome
    /\ map_in = <<>>
    /\ pending = FALSE
    /\ fld = <<>>
    /\ encountered_fields = 0
    /\ variant = None
    /\ log = <<>>
    /\ outcome = NoOutcome

NextSeq == SeqIterate \/ SeqExhausted

SpecSeq == InitSeq /\ [][NextSeq]_vars

\* visit_seq runs on the calling thread until it returns: the loop of lines
\* 140-148 does not stop between two iterations
SpecSeqFair == SpecSeq /\ WF_vars(NextSeq)

(***************************************************************************)
(* DeserializeSeedDependentTuple (dependent_tuple.rs).  The tuple region   *)
(* holds arg.n elements: a scalar (arg.first_raw), then a sequence         *)
(* (arg.second_raw); elements past the second are never looked at.         *)
(***************************************************************************)
\* dependent_tuple.rs test_serde_postcard: (3, vec![0, 0, 0]); here 10, 20, 30
TupleElemVals == {10, 20, 30}

\* the seeds handed to DeserializeSeedSeq by the closures of lines 22-26
\* ((0..).map), 118-122 ((0..len).map) and 135-139 ((0..(len + 1)).map)
Derive(kind, len) ==
    IF kind = "unbounded" THEN RepeatSeeds(0)
    ELSE IF kind = "len" THEN FiniteSeeds([i \in 1..len |-> 0])
    ELSE FiniteSeeds([i \in 1..(len + 1) |-> 0])

\* how a seed shows in the log: its mask, or the number of seeds of a
\* sequence seed (-1: unbounded)
SeedId(st) == IF st.inf THEN -1 ELSE Len(st.items)

\* the derivation applied to something else than the decoded first element
DeriveSecondOffByOne(a) == Derive(arg.derive, a + 1)

\* dependent_tuple.rs line 90: (self.derive_second)(first)
DeriveSecond(a) == Derive(arg.derive, a)

\* the arity error that forgets how many elements were read
TupleTooShortZero(encountered) ==
    InvalidLength(0, "a tuple with 2 elements", 2, FALSE)

\* dependent_tuple.rs lines 93, 96: invalid_length(n, &"a tuple with 2 elements")
TupleTooShort(encountered) ==
    InvalidLength(encountered, "a tuple with 2 elements", 2, FALSE)

\* dependent_tuple.rs line 89: seq.next_element_seed(self.first)?
TupleFirst ==
    /\ pc = "tup_first"
    /\ \E fail \in BOOLEAN :
         IF fail
         THEN /\ pc' = "done"
              /\ outcome' = Collaborator("context")
              /\ log' = Append(log, Event("tuple.next_element_seed",
                                          arg.first_seed, "err"))
              /\ UNCHANGED <<first, tup_left>>
         ELSE IF tup_left = 0
         THEN /\ pc' = "done"
              /\ outcome' = TupleTooShort(0)
              /\ log' = Append(log, Event("tuple.next_element_seed",
                                          arg.first_seed, "none"))
              /\ UNCHANGED <<first, tup_left>>
         ELSE /\ pc' = "tup_second"
              /\ first' = Some(LeafDeserialize(arg.first_seed, arg.first_raw))
              /\ tup_left' = tup_left - 1
              /\ log' = Append(log, Event("tuple.next_element_seed",
                                          arg.first_seed, "some"))
              /\ UNCHANGED outcome
    /\ UNCHANGED <<decoder, build, arg, encountered_fields, variant,
                   seq_in, seeds, result, current_len,
                   ret, map_in, pending, fld>>

\* dependent_tuple.rs line 90: derive the second seed, hand it to the cursor;
\* with an element present the cursor runs the seed (DeserializeSeedSeq)
TupleSecond ==
    /\ pc = "tup_second"
    /\ LET b == DeriveSecond(first.v)
           derived == Event("derive", first.v, "")
       IN \E fail \in BOOLEAN :
         IF fail
         THEN /\ pc' = "done"
              /\ outcome' = Collaborator("context")
              /\ log' = log \o <<derived, Event("tuple.next_element_seed",
                                                SeedId(b), "err")>>
              /\ UNCHANGED <<tup_left, seq_in, seeds, result, current_len>>
         ELSE IF tup_left = 0
         THEN /\ pc' = "done"
              /\ outcome' = TupleTooShort(1)
              /\ log' = log \o <<derived, Event("tuple.next_element_seed",
                                                SeedId(b), "none")>>
              /\ UNCHANGED <<tup_left, seq_in, seeds, result, current_len>>
         ELSE /\ pc' = "seq_loop"
              /\ tup_left' = tup_left - 1
              /\ seq_in' = arg.second_raw
              /\ seeds' = b
              /\ result' = arg.initial
              /\ current_len' = 0
              /\ log' = log \o <<derived, Event("tuple.next_element_seed",
                                                SeedId(b), "some")>>
              /\ UNCHANGED outcome
    /\ UNCHANGED <<decoder, build, arg, encountered_fields, variant,
                   first, ret, map_in, pending, fld>>

\* dependent_tuple.rs lines 90-91: `?` on the nested result, return Ok(second)
TupleReturn ==
    /\ pc = "tup_ret"
    /\ pc' = "done"
    /\ outcome' = IF ret.kind = "Ok" THEN Ok(ret.val) ELSE ret
    /\ UNCHANGED <<decoder, build, arg, encountered_fields, variant,
                   seq_in, seeds, result, current_len,
                   tup_left, first, ret, map_in, pending, fld, log>>

\* DeserializeSeedDependentTuple::new(first, derive_second).deserialize(de)
TupleArgs ==
    [n : {0, 1, 2, 3},
     first_seed : Masks,
     first_raw : 0..(MaxLen + 1),
     second_raw : SeqsUpTo(TupleElemVals, MaxLen),
     derive : {"len", "len_plus_1", "unbounded"},
     initial : {<<>>},
     collector : {"push"}]

InitTuple ==
    /\ decoder = "tuple"
    /\ build \in {"debug", "release"}
    /\ arg \in TupleArgs
    /\ pc = "tup_first"
    /\ seq_in = <<>>
    /\ seeds = FiniteSeeds(<<>>)
    /\ result = <<>>
    /\ current_len = 0
    /\ tup_left = arg.n
    /\ first = None
    /\ ret = NoOutcome
    /\ map_in = <<>>
    /\ pending = FALSE
    /\ fld = <<>>
    /\ encountered_fields = 0
    /\ variant = None
    /\ log = <<>>
    /\ outcome = NoOutcome

NextTuple == TupleFirst \/ TupleSecond \/ SeqIterate \/ SeqExhausted \/ TupleReturn

SpecTuple == InitTuple /\ [][NextTuple]_vars

(***************************************************************************)
(* impl_deserialize_seed_for_dependent_struct! (rust_struct.rs), for the   *)
(* struct of the doc example: fields a and b, both i64, decoded with       *)
(* seed.deserialize_a and seed.deserialize_b.  visit_map reads a map whose *)
(* keys reach FieldVisitor as an ordinal, a string or raw bytes.           *)
(***************************************************************************)
\* [$(stringify!($field)),*], rust_struct.rs lines 78-81
FieldNames == <<"a", "b">>

\* FIELD_COUNT, line 200
FIELD_COUNT == Len(FieldNames)

\* str::as_bytes of the identifiers that occur
AsBytes(name) ==
    IF name = "a" THEN <<97>>
    ELSE IF name = "b" THEN <<98>>
    ELSE IF name = "c" THEN <<99>>
    ELSE IF name = "A" THEN <<65>>
    ELSE IF name = "B" THEN <<66>>
    ELSE IF name = "C" THEN <<67>>
    ELSE <<>>

\* the identifier the context hands to FieldVisitor
U64Key(n) == [t |-> "u64", n |-> n, s |-> "", b |-> <<>>]
StrKey(x) == [t |-> "str", n |-> 0, s |-> x, b |-> <<>>]
BytesKey(x) == [t |-> "bytes", n |-> 0, s |-> "", b |-> x]

Keys ==
    {U64Key(n) : n \in 0..FIELD_COUNT}
    \cup {StrKey(x) : x \in {"a", "b", "c"}}
    \cup {BytesKey(AsBytes(x)) : x \in {"a", "c"}}

\* the raw i64 values of the map entries (42: the tests)
MapVals == {7, 42}

\* visit_str / visit_bytes, lines 222-247: the first field whose name matches
RECURSIVE FirstMatch(_, _, _)
FirstMatch(key, current, names) ==
    IF names = <<>> THEN None
    ELSE IF (IF key.t = "str" THEN key.s = Head(names)
                              ELSE key.b = AsBytes(Head(names)))
         THEN Some(current)
         ELSE FirstMatch(key, current + 1, Tail(names))

\* FieldVisitor, lines 211-247: Field = Option<u32>
FieldVisitor(key) ==
    IF key.t = "u64"
    THEN IF key.n >= FIELD_COUNT THEN None ELSE Some(key.n)
    ELSE FirstMatch(key, 0, FieldNames)

\* every field decoded with the first field's seed
FieldSeedFirst(current) == arg.base[1]

\* line 311: ($local_deserialize_seed)(&self.deserialize_seed_base),
\* |seed| seed.deserialize_a resp. |seed| seed.deserialize_b
FieldSeed(current) == arg.base[current + 1]

\* the check of line 308 left out
IsDuplicateNever(current) == FALSE

\* line 308: $field.is_some()
IsDuplicate(current) == fld[current + 1].some

\* Error::duplicate_field / Error::missing_field
DuplicateField(name) == [NoOutcome EXCEPT !.kind = "DuplicateField", !.name = name]
MissingField(name) == [NoOutcome EXCEPT !.kind = "MissingField", !.name = name]

\* The entries the cursor still holds when next_key_seed is called.  A value
\* left unread by the visitor is the cursor's to deal with: a "lenient"
\* cursor drops it, a "strict" one does not get here (see StructKeyError).
MapAtKey == IF pending THEN Tail(map_in) ELSE map_in

\* next_key_seed called while the previous value is unread, on a cursor that
\* expects the value to be read first
MapMisused == pending /\ arg.style = "strict"

\* line 303: map.next_key_seed(FieldDeserializer)? returns an error
StructKeyError ==
    /\ pc = "map_loop"
    /\ \/ /\ outcome' = Collaborator("context")
          /\ log' = Append(log, Event("next_key", -1, "err"))
       \/ /\ MapMisused
          /\ outcome' = Collaborator("value not read before next key")
          /\ log' = Append(log, Event("next_key", -1, "misuse"))
    /\ pc' = "done"
    /\ UNCHANGED <<decoder, build, arg, encountered_fields, variant,
                   seq_in, seeds, result, current_len,
                   tup_left, first, ret, map_in, pending, fld>>

\* lines 303-317: one iteration of the loop, next_key_seed returned Some(key)
StructMapIterate ==
    /\ pc = "map_loop"
    /\ ~MapMisused
    /\ MapAtKey # <<>>
    /\ LET entry == Head(MapAtKey)
           key == FieldVisitor(entry.key)
       IN
       IF ~key.some
       THEN \* unknown key: the body of `if let Some(key) = key` is skipped
            /\ map_in' = MapAtKey
            /\ pending' = TRUE
            /\ log' = Append(log, Event("next_key", -1, "some"))
            /\ UNCHANGED <<pc, fld, outcome>>
       ELSE IF IsDuplicate(key.v)
       THEN /\ pc' = "done"
            /\ outcome' = DuplicateField(FieldNames[key.v + 1])
            /\ map_in' = MapAtKey
            /\ pending' = TRUE
            /\ log' = Append(log, Event("next_key", key.v, "some"))
            /\ UNCHANGED fld
       ELSE LET seed == FieldSeed(key.v)
                read == <<Event("next_key", key.v, "some"),
                          Event("derive_field", key.v, "")>>
            IN \E fail \in BOOLEAN :
                 IF fail
                 THEN \* map.next_value_seed(..)? returns the context's error
                      /\ pc' = "done"
                      /\ outcome' = Collaborator("context")
                      /\ map_in' = MapAtKey
                      /\ pending' = TRUE
                      /\ log' = log \o read
                                    \o <<Event("next_value", seed, "err")>>
                      /\ UNCHANGED fld
                 ELSE /\ fld' = [fld EXCEPT ![key.v + 1] =
                                    Some(LeafDeserialize(seed, entry.val))]
                      /\ map_in' = Tail(MapAtKey)
                      /\ pending' = FALSE
                      /\ log' = log \o read
                                    \o <<Event("next_value", seed, "some")>>
                      /\ UNCHANGED <<pc, outcome>>
    /\ UNCHANGED <<decoder, build, arg, encountered_fields, variant,
                   seq_in, seeds, result, current_len,
                   tup_left, first, ret>>

\* the missing-field check that names the first field whichever is missing
FirstMissingNamesFirst(f, i) ==
    IF \E j \in 1..Len(f) : ~f[j].some THEN 1 ELSE 0

\* lines 318-323: the first field, in declaration order, that is still None
RECURSIVE FirstMissing(_, _)
FirstMissing(f, i) ==
    IF i > Len(f) THEN 0
    ELSE IF ~f[i].some THEN i
    ELSE FirstMissing(f, i + 1)

\* lines 303, 318-327: next_key_seed returned None; check and build the struct
StructMapFinish ==
    /\ pc = "map_loop"
    /\ ~MapMisused
    /\ MapAtKey = <<>>
    /\ pc' = "done"
    /\ map_in' = MapAtKey
    /\ pending' = FALSE
    /\ LET m == FirstMissing(fld, 1) IN
       outcome' = IF m # 0 THEN MissingField(FieldNames[m])
                  ELSE Ok([i \in 1..FIELD_COUNT |-> fld[i].v])
    /\ log' = Append(log, Event("next_key", -1, "none"))
    /\ UNCHANGED <<decoder, build, arg, encountered_fields, variant,
                   seq_in, seeds, result, current_len,
                   tup_left, first, ret, fld>>

\* FooDeserializeSeed { deserialize_a, deserialize_b }.deserialize(de) on a map
StructArgs ==
    [entries : SeqsUpTo([key : Keys, val : MapVals], MaxEntries),
     base : {<<0, 1>>, <<1, 0>>},
     style : {"strict", "lenient"},
     initial : {<<>>},
     collector : {"push"}]

InitStruct ==
    /\ decoder = "struct"
    /\ build = "debug"
    /\ arg \in StructArgs
    /\ pc = "map_loop"
    /\ seq_in = <<>>
    /\ seeds = FiniteSeeds(<<>>)
    /\ result = <<>>
    /\ current_len = 0
    /\ tup_left = 0
    /\ first = None
    /\ ret = NoOutcome
    /\ map_in = arg.entries
    /\ pending = FALSE
    /\ fld = [i \in 1..FIELD_COUNT |-> None]
    /\ encountered_fields = 0
    /\ variant = None
    /\ log = <<>>
    /\ outcome = NoOutcome

NextStruct == StructKeyError \/ StructMapIterate \/ StructMapFinish

SpecStruct == InitStruct /\ [][NextStruct]_vars

(***************************************************************************)
(* The same struct read positionally: rust_struct.rs visit_seq.  The input *)
(* is a sequence of raw values; arg.vals lists them in the declared order  *)
(* of the fields they were written for, and arg.order says whether the     *)
(* writer put the first two in declared order or exchanged them.           *)
(***************************************************************************)
Physical(vals, order) ==
    IF order = "permuted" /\ Len(vals) >= 2
    THEN <<vals[2], vals[1]>> \o SubSeq(vals, 3, Len(vals))
    ELSE vals

\* the length error that reports no field as read
StructTooShortStale(encountered) ==
    InvalidLength(0, "struct Foo with {} elements", FIELD_COUNT, FALSE)

\* line 288: invalid_length(encountered_fields,
\*                          "struct {name} with {FIELD_COUNT} elements")
StructTooShort(encountered) ==
    InvalidLength(encountered, "struct Foo with {} elements", FIELD_COUNT, FALSE)

\* lines 284-292, the block of one field: derive its seed, request the next
\* element with it, count it; after the last field, lines 282-293 return Ok
StructSeqField ==
    /\ pc = "pos_fields"
    /\ encountered_fields < FIELD_COUNT
    /\ LET current == encountered_fields
           seed == FieldSeed(current)
           derived == Event("derive_field", current, "")
       IN \E fail \in BOOLEAN :
         IF fail
         THEN /\ pc' = "done"
              /\ outcome' = Collaborator("context")
              /\ log' = log \o <<derived,
                                 Event("struct.next_element_seed", seed, "err")>>
              /\ UNCHANGED <<seq_in, fld, encountered_fields>>
         ELSE IF seq_in = <<>>
         THEN /\ pc' = "done"
              /\ outcome' = StructTooShort(encountered_fields)
              /\ log' = log \o <<derived,
                                 Event("struct.next_element_seed", seed, "none")>>
              /\ UNCHANGED <<seq_in, fld, encountered_fields>>
         ELSE LET value == LeafDeserialize(seed, Head(seq_in))
                  got == [fld EXCEPT ![current + 1] = Some(value)]
              IN
              /\ seq_in' = Tail(seq_in)
              /\ fld' = got
              /\ encountered_fields' = encountered_fields + 1
              /\ log' = log \o <<derived,
                                 Event("struct.next_element_seed", seed, "some")>>
              /\ IF current + 1 = FIELD_COUNT
                 THEN /\ pc' = "done"
                      /\ outcome' = Ok([i \in 1..FIELD_COUNT |-> got[i].v])
                 ELSE UNCHANGED <<pc, outcome>>
    /\ UNCHANGED <<decoder, build, arg, variant, seeds, result, current_len,
                   tup_left, first, ret, map_in, pending>>

\* FooDeserializeSeed { deserialize_a, deserialize_b }.deserialize(de) on a
\* sequence (postcard: deserialize_struct hands the visitor a SeqAccess)
StructSeqArgs ==
    [vals : SeqsUpTo(MapVals, MaxLen),
     order : {"declared", "permuted"},
     base : [1..FIELD_COUNT -> Masks],
     initial : {<<>>},
     collector : {"push"}]

InitStructSeq ==
    /\ decoder = "struct_seq"
    /\ build = "debug"
    /\ arg \in StructSeqArgs
    /\ pc = "pos_fields"
    /\ seq_in = Physical(arg.vals, arg.order)
    /\ seeds = FiniteSeeds(<<>>)
    /\ result = <<>>
    /\ current_len = 0
    /\ tup_left = 0
    /\ first = None
    /\ ret = NoOutcome
    /\ map_in = <<>>
    /\ pending = FALSE
    /\ fld = [i \in 1..FIELD_COUNT |-> None]
    /\ encountered_fields = 0
    /\ variant = None
    /\ log = <<>>
    /\ outcome = NoOutcome

NextStructSeq == StructSeqField

SpecStructSeq == InitStructSeq /\ [][NextStructSeq]_vars

(***************************************************************************)
(* impl_deserialize_seed_for_dependent_enum!, for the enum of the tests:   *)
(*     pub enum Foo<'de> using DeserializeSeedFoo { A(..): .., B(..): .. } *)
(* The input is one discriminant and one payload; the payloads of both     *)
(* variants are raw integers decoded by a LeafDeserialize seed.            *)
(***************************************************************************)
\* FIELDS, rust_enum.rs line 78
FIELDS == <<"A", "B">>

\* FIELD_COUNT of rust_enum.rs, line 79
VARIANT_COUNT == Len(FIELDS)

\* String::from_utf8_lossy of the byte strings that occur; an invalid byte
\* becomes U+FFFD
Utf8Lossy(bytes) ==
    IF bytes = <<65>> THEN "A"
    ELSE IF bytes = <<66>> THEN "B"
    ELSE IF bytes = <<67>> THEN "C"
    ELSE IF bytes = <<97>> THEN "a"
    ELSE IF bytes = <<255>> THEN "\\u{FFFD}"
    ELSE ""

\* the discriminants the context may hand to FieldVisitor
Discriminants ==
    {U64Key(n) : n \in 0..VARIANT_COUNT}
    \cup {StrKey(x) : x \in {"A", "B", "a", "C"}}
    \cup {BytesKey(AsBytes(x)) : x \in {"A", "B", "C"}}
    \cup {BytesKey(<<97>>), BytesKey(<<255>>)}

\* the raw payloads (42: the struct tests; 1: the doc example)
PayloadVals == {1, 42}

\* Error::invalid_value(Unexpected::Unsigned(value), "variant index should
\* be < {FIELD_COUNT}") and Error::unknown_variant(value, FIELDS)
InvalidValue(value, msg, bound) ==
    [NoOutcome EXCEPT !.kind = "InvalidValue", !.len = value, !.msg = msg,
                      !.exp = bound]
UnknownVariant(token, names) ==
    [NoOutcome EXCEPT !.kind = "UnknownVariant", !.name = token, !.val = names]

\* the comparison of a name with the variant names that ignores case
VariantMatchAnyCase(key) ==
    IF key = StrKey("a") \/ key = BytesKey(<<97>>)
    THEN Some(0)
    ELSE FirstMatch(key, 0, FIELDS)

\* lines 104-109 and 118-123: `if value == stringify!($variant)` in turn
VariantMatch(key) == FirstMatch(key, 0, FIELDS)

\* line 93
OrdinalError(value) ==
    InvalidValue(value, "variant index should be < {}", VARIANT_COUNT)

\* FieldVisitor of rust_enum.rs, lines 81-127: Result<u32, E>
VariantVisitor(key) ==
    IF key.t = "u64"
    THEN IF key.n >= VARIANT_COUNT
         THEN [ok |-> FALSE, v |-> 0, err |-> OrdinalError(key.n)]
         ELSE [ok |-> TRUE, v |-> key.n, err |-> NoOutcome]
    ELSE LET m == VariantMatch(key)
             token == IF key.t = "str" THEN key.s ELSE Utf8Lossy(key.b)
         IN IF m.some
            THEN [ok |-> TRUE, v |-> m.v, err |-> NoOutcome]
            ELSE [ok |-> FALSE, v |-> 0, err |-> UnknownVariant(token, FIELDS)]

\* every payload decoded with the first variant's seed
VariantSeedFirst(current) == arg.base[1]

\* line 165: ($local_deserialize_seed)(self.deserialize_seed_base)
VariantSeed(current) == arg.base[current + 1]

\* Foo::$variant((payload, PhantomData)), line 164
EnumCase(current, payload) == <<current, payload>>

\* line 160: variant = EnumAccess::variant_seed(data, FieldDeserializer)?
EnumVariant ==
    /\ pc = "enum_variant"
    /\ \E fail \in BOOLEAN :
         IF fail
         THEN /\ pc' = "done"
              /\ outcome' = Collaborator("context")
              /\ log' = Append(log, Event("variant_seed", -1, "err"))
              /\ UNCHANGED variant
         ELSE LET r == VariantVisitor(arg.disc)
              IN IF r.ok
                 THEN /\ variant' = Some(r.v)
                      /\ pc' = "enum_payload"
                      /\ log' = Append(log, Event("variant_seed", r.v, "some"))
                      /\ UNCHANGED outcome
                 ELSE /\ pc' = "done"
                      /\ outcome' = r.err
                      /\ log' = Append(log, Event("variant_seed", -1, "visitor"))
                      /\ UNCHANGED variant
    /\ UNCHANGED <<decoder, build, arg, encountered_fields, seq_in, seeds,
                   result, current_len, tup_left, first, ret, map_in, pending,
                   fld>>

\* lines 161-170: the block of the variant with variant.0 == current
EnumPayload ==
    /\ pc = "enum_payload"
    /\ LET current == variant.v
           seed == VariantSeed(current)
           derived == Event("derive_variant", current, "")
       IN \E fail \in BOOLEAN :
            /\ pc' = "done"
            /\ IF fail
               THEN /\ outcome' = Collaborator("context")
                    /\ log' = log \o <<derived,
                                 Event("newtype_variant_seed", seed, "err")>>
               ELSE /\ outcome' = Ok(EnumCase(current,
                                       LeafDeserialize(seed, arg.payload)))
                    /\ log' = log \o <<derived,
                                 Event("newtype_variant_seed", seed, "some")>>
    /\ UNCHANGED <<decoder, build, arg, encountered_fields, variant,
                   seq_in,
                   seeds, result, current_len, tup_left, first, ret, map_in,
                   pending, fld>>

\* DeserializeSeedFoo.deserialize(de) on the encoding of one enum value
EnumArgs ==
    [disc : Discriminants,
     payload : PayloadVals,
     base : [1..VARIANT_COUNT -> Masks],
     initial : {<<>>},
     collector : {"push"}]

InitEnum ==
    /\ decoder = "enum"
    /\ build = "debug"
    /\ arg \in EnumArgs
    /\ pc = "enum_variant"
    /\ seq_in = <<>>
    /\ seeds = FiniteSeeds(<<>>)
    /\ result = <<>>
    /\ current_len = 0
    /\ tup_left = 0
    /\ first = None
    /\ ret = NoOutcome
    /\ map_in = <<>>
    /\ pending = FALSE
    /\ fld = <<>>
    /\ encountered_fields = 0
    /\ variant = None
    /\ log = <<>>
    /\ outcome = NoOutcome

NextEnum == EnumVariant \/ EnumPayload

SpecEnum == InitEnum /\ [][NextEnum]_vars

(***************************************************************************)
(* newtype_struct.rs: SerializableNewtypeStruct and                        *)
(* DeserializeSeedNewtypeStruct.  What becomes of the name is the format's *)
(* business: a "transparent" format (serde_json, postcard) writes the      *)
(* payload alone and ignores the name on reading, a "named" format writes  *)
(* the name and compares it on reading.                                    *)
(***************************************************************************)
\* the names and payloads of testdata(), lines 100-107
NewtypeNames == {"Foo", "Bar", "foo", ""}
NewtypePayloads == {1, 2, 3}

\* lines 30-34: serializer.serialize_newtype_struct(self.name, &self.data)
SerializeNewtypeStruct(name, data, format) ==
    [named |-> format = "named",
     name |-> IF format = "named" THEN name ELSE "",
     data |-> data]

\* the format's deserialize_newtype_struct(name, visitor) accepts the input
NameAccepted(encoded, name) == ~encoded.named \/ encoded.name = name

\* the visitor that hands the payload on without the seed
VisitNewtypeStructRaw(seed, data) == data

\* lines 88-92: visit_newtype_struct is self.seed.deserialize(deserializer)
VisitNewtypeStruct(seed, data) == LeafDeserialize(seed, data)

\* line 95: deserializer.deserialize_newtype_struct(self.name, visitor), up to
\* the format's call of visit_newtype_struct
NewtypeDeserialize ==
    /\ pc = "nt_enter"
    /\ \E fail \in BOOLEAN :
         IF fail \/ ~NameAccepted(Head(seq_in), arg.name)
         THEN /\ pc' = "done"
              /\ outcome' = Collaborator(IF fail THEN "context" ELSE "name")
              /\ log' = Append(log,
                           Event("deserialize_newtype_struct", -1, "err"))
         ELSE /\ pc' = "nt_visit"
              /\ log' = Append(log,
                           Event("deserialize_newtype_struct", -1, "some"))
              /\ UNCHANGED outcome
    /\ UNCHANGED <<decoder, build, arg, encountered_fields, variant,
                   seq_in,
                   seeds, result, current_len, tup_left, first, ret, map_in,
                   pending, fld>>

\* lines 88-92: the visitor decodes the payload with the inner seed, and its
\* result is the result of the whole call
NewtypeVisit ==
    /\ pc = "nt_visit"
    /\ pc' = "done"
    /\ \E fail \in BOOLEAN :
         IF fail
         THEN /\ outcome' = Collaborator("context")
              /\ log' = Append(log, Event("seed.deserialize", arg.seed, "err"))
              /\ UNCHANGED seq_in
         ELSE /\ outcome' = Ok(VisitNewtypeStruct(arg.seed, Head(seq_in).data))
              /\ log' = Append(log, Event("seed.deserialize", arg.seed, "some"))
              /\ seq_in' = Tail(seq_in)
    /\ UNCHANGED <<decoder, build, arg, encountered_fields, variant,
                   seeds,
                   result, current_len, tup_left, first, ret, map_in, pending,
                   fld>>

\* DeserializeSeedNewtypeStruct::new(name, seed).deserialize(de), de reading
\* the encoding of SerializableNewtypeStruct::new(written, payload)
NewtypeArgs ==
    [written : NewtypeNames,
     name : NewtypeNames,
     payload : NewtypePayloads,
     seed : Masks,
     format : {"transparent", "named"},
     initial : {<<>>},
     collector : {"push"}]

InitNewtype ==
    /\ decoder = "newtype"
    /\ build = "debug"
    /\ arg \in NewtypeArgs
    /\ pc = "nt_enter"
    /\ seq_in = <<SerializeNewtypeStruct(arg.written, arg.payload, arg.format)>>
    /\ seeds = FiniteSeeds(<<>>)
    /\ result = <<>>
    /\ current_len = 0
    /\ tup_left = 0
    /\ first = None
    /\ ret = NoOutcome
    /\ map_in = <<>>
    /\ pending = FALSE
    /\ fld = <<>>
    /\ encountered_fields = 0
    /\ variant = None
    /\ log = <<>>
    /\ outcome = NoOutcome

NextNewtype == NewtypeDeserialize \/ NewtypeVisit

SpecNewtype == InitNewtype /\ [][NextNewtype]_vars

(***************************************************************************)
(* All decoders of the crate, one decode call of any of them.              *)
(***************************************************************************)
InitAll ==
    \/ InitSeq
    \/ InitTuple
    \/ InitStruct
    \/ InitStructSeq
    \/ InitEnum
    \/ InitNewtype

NextAll ==
    \/ SeqIterate
    \/ SeqExhausted
    \/ TupleFirst
    \/ TupleSecond
    \/ TupleReturn
    \/ StructKeyError
    \/ StructMapIterate
    \/ StructMapFinish
    \/ StructSeqField
    \/ EnumVariant
    \/ EnumPayload
    \/ NewtypeDeserialize
    \/ NewtypeVisit

SpecAll == InitAll /\ [][NextAll]_vars

(***************************************************************************)
(* What the log and the arguments say, for the statements below.           *)
(***************************************************************************)
Calls(op) == SelectSeq(log, LAMBDA e : e.op = op)

PulledSeeds ==
    LET p == SelectSeq(log, LAMBDA e : e.op = "seeds.next" /\ e.r = "some")
    IN [i \in 1..Len(p) |-> p[i].a]

\* the i-th seed the stream st produces
SeedAt(st, i) == IF st.inf THEN st.items[1] ELSE st.items[i]

\* whether the stream st can produce n seeds
Produces(st, n) == st.inf \/ Len(st.items) >= n

\* e_0 .. e_(k-1): element i decoded with the i-th seed
DecodedElems(elems, st) ==
    [i \in 1..Len(elems) |-> LeafDeserialize(SeedAt(st, i), elems[i])]

RECURSIVE FoldLeft(_, _, _)
FoldLeft(kind, acc, xs) ==
    IF xs = <<>> THEN acc
    ELSE FoldLeft(kind, Collector(kind, acc, Head(xs)), Tail(xs))

ContextFailed == \E i \in 1..Len(log) : log[i].r = "err"

SeqDone == decoder = "seq" /\ pc = "done"

(***************************************************************************)
(* C1: with at least k+1 seeds for k input elements, the sequence decoder  *)
(* succeeds and returns the left fold of the collector over the decoded    *)
(* elements, starting from `initial`; the collector is applied once per    *)
(* element, in input order; with push, an empty initial vector and         *)
(* PhantomData seeds the input comes back unchanged.                       *)
(***************************************************************************)
C1_FoldInOrder ==
    (SeqDone /\ Produces(arg.seeds, Len(arg.elems) + 1) /\ ~ContextFailed)
    => LET es == DecodedElems(arg.elems, arg.seeds)
           cs == Calls("collector")
       IN /\ outcome = Ok(FoldLeft(arg.collector, arg.initial, es))
          /\ [i \in 1..Len(cs) |-> cs[i].a] = es
          /\ (/\ arg.collector = "push"
              /\ arg.initial = <<>>
              /\ \A i \in 1..Len(arg.elems) : SeedAt(arg.seeds, i) = 0)
             => outcome.val = arg.elems

C1_Witness ==
    /\ SeqDone
    /\ arg.elems = <<1, 3, 4>>
    /\ arg.seeds = RepeatSeeds(0)
    /\ arg.collector = "push"
    /\ outcome = Ok(<<1, 3, 4>>)

(***************************************************************************)
(* C2: a successful decode of k elements has pulled exactly the first k+1  *)
(* seeds of the stream, has handed each pulled seed to the one element     *)
(* request that follows it, and the last request saw the end of the        *)
(* sequence: only k values reached the collector.                          *)
(***************************************************************************)
C2_ProbeSeed ==
    (SeqDone /\ outcome.kind = "Ok")
    => LET k == Len(arg.elems)
           rq == Calls("next_element_seed")
       IN /\ Produces(arg.seeds, k + 1)
          /\ PulledSeeds = [i \in 1..(k + 1) |-> SeedAt(arg.seeds, i)]
          /\ [i \in 1..Len(rq) |-> rq[i].a] = PulledSeeds
          /\ \A i \in 1..Len(log) :
                log[i].op = "seeds.next" =>
                    /\ i < Len(log)
                    /\ log[i + 1].op = "next_element_seed"
                    /\ log[i + 1].a = log[i].a
          /\ rq[k + 1].r = "none"
          /\ \A i \in 1..k : rq[i].r = "some"
          /\ Len(Calls("collector")) = k
          /\ Len(outcome.val) = Len(arg.initial) + k
          /\ ~arg.seeds.inf => Len(seeds.items) = Len(arg.seeds.items) - (k + 1)

C2_Witness ==
    /\ SeqDone
    /\ outcome.kind = "Ok"
    /\ Len(arg.elems) = 2
    /\ arg.seeds = FiniteSeeds(<<1, 0, 1>>)
    /\ PulledSeeds = <<1, 0, 1>>

(***************************************************************************)
(* C3: a seed stream of m <= k seeds for k input elements makes the decode *)
(* return an InvalidLength error.                                          *)
(***************************************************************************)
C3_UnderProvisioned ==
    (/\ SeqDone
     /\ ~arg.seeds.inf
     /\ Len(arg.seeds.items) <= Len(arg.elems)
     /\ ~ContextFailed)
    => outcome.kind = "InvalidLength"

TupleDone == decoder = "tuple" /\ pc = "done"

\* the value element 0 decodes to
FirstValue == LeafDeserialize(arg.first_seed, arg.first_raw)

(***************************************************************************)
(* C4: (3, [10, 20, 30]) decoded by a dependent tuple whose derive(len) is *)
(* a sequence decoder with exactly len scalar seeds yields [10, 20, 30].   *)
(***************************************************************************)
C4_ExactSeedsSucceed ==
    (/\ TupleDone
     /\ arg.n = 2
     /\ FirstValue = 3
     /\ arg.second_raw = <<10, 20, 30>>
     /\ arg.derive = "len"
     /\ ~ContextFailed)
    => outcome = Ok(<<10, 20, 30>>)

(***************************************************************************)
(* C5: (3, [10, 20]) decoded by the same composition (derive(len) = len    *)
(* scalar seeds) fails with InvalidLength and does not return [10, 20].    *)
(***************************************************************************)
C5_ShortSequenceFails ==
    (/\ TupleDone
     /\ arg.n = 2
     /\ FirstValue = 3
     /\ arg.second_raw = <<10, 20>>
     /\ arg.derive = "len"
     /\ ~ContextFailed)
    => (outcome.kind = "InvalidLength" /\ outcome # Ok(<<10, 20>>))

(***************************************************************************)
(* C6: the dependent tuple decodes element 0 with seed A; the derivation   *)
(* function runs at most once, right after element 0 was decoded, on its   *)
(* value a (never when element 0 is absent or its decode failed); element  *)
(* 1 is requested with derive(a); a successful decode made exactly two     *)
(* element requests on the tuple cursor and returns the second value only. *)
(***************************************************************************)
C6_DeriveAfterFirst ==
    decoder = "tuple" =>
    LET rq == Calls("tuple.next_element_seed")
        dv == Calls("derive")
    IN /\ Len(dv) <= 1
       /\ Len(rq) <= 2
       /\ Len(rq) >= 1 => rq[1].a = arg.first_seed
       /\ \A i \in 1..Len(log) :
             log[i].op = "derive" =>
                 /\ i = 2
                 /\ log[1] = Event("tuple.next_element_seed",
                                   arg.first_seed, "some")
                 /\ log[i].a = FirstValue
                 /\ first = Some(FirstValue)
                 /\ log[3].op = "tuple.next_element_seed"
                 /\ log[3].a = SeedId(Derive(arg.derive, FirstValue))
       /\ (Len(rq) >= 1 /\ rq[1].r # "some") => Len(dv) = 0
       /\ Len(rq) = 2 => Len(dv) = 1
       /\ (pc = "seq_loop" /\ current_len = 0 /\ ~ContextFailed)
             => seeds = Derive(arg.derive, FirstValue)
       /\ (pc = "done" /\ outcome.kind = "Ok") =>
             /\ Len(rq) = 2
             /\ Len(dv) = 1
             /\ outcome = ret
             /\ outcome.val = arg.second_raw

C6_Witness ==
    /\ TupleDone
    /\ outcome.kind = "Ok"
    /\ arg.first_seed = 1
    /\ arg.first_raw = 2
    /\ arg.derive = "len"
    /\ arg.second_raw = <<10, 20>>
    /\ Len(Calls("derive")) = 1

(***************************************************************************)
(* C7: no element at position 0 gives InvalidLength(0, a tuple with 2      *)
(* elements); element 0 present and no element at position 1 gives         *)
(* InvalidLength(1, a tuple with 2 elements); no value is returned.        *)
(***************************************************************************)
C7_ArityErrors ==
    (TupleDone /\ ~ContextFailed) =>
       /\ arg.n = 0 =>
             outcome = InvalidLength(0, "a tuple with 2 elements", 2, FALSE)
       /\ arg.n = 1 =>
             outcome = InvalidLength(1, "a tuple with 2 elements", 2, FALSE)

C7_Witness ==
    /\ TupleDone
    /\ arg.n = 1
    /\ ~ContextFailed
    /\ outcome.kind = "InvalidLength"
    /\ outcome.len = 1
    /\ Len(Calls("tuple.next_element_seed")) = 2

StructDone == decoder = "struct" /\ pc = "done"

\* the entries of the input map whose key names field number f (from 0)
EntriesOf(f) ==
    {i \in 1..Len(arg.entries) : FieldVisitor(arg.entries[i].key) = Some(f)}

\* the entries of the input map whose key names no field
UnknownEntries ==
    {i \in 1..Len(arg.entries) : ~FieldVisitor(arg.entries[i].key).some}

EachFieldOnce == \A f \in 0..(FIELD_COUNT - 1) : Cardinality(EntriesOf(f)) = 1

\* the struct the entries describe, whatever their order: field f holds the
\* value of the entry named f, decoded with the seed of f taken from the base
ExpectedStruct ==
    [j \in 1..FIELD_COUNT |->
        LeafDeserialize(arg.base[j],
                        arg.entries[CHOOSE i \in EntriesOf(j - 1) : TRUE].val)]

(***************************************************************************)
(* C8: in associative mode, a map that holds every declared field exactly  *)
(* once and no other key decodes to the same struct in whatever order its  *)
(* entries come: each field holds the value of its entry, decoded with     *)
(* that field's seed derived from the shared base.                         *)
(***************************************************************************)
C8_OrderIndependent ==
    (StructDone /\ ~ContextFailed /\ EachFieldOnce /\ UnknownEntries = {})
    => outcome = Ok(ExpectedStruct)

C8_Witness ==
    /\ StructDone
    /\ arg.entries = <<[key |-> StrKey("b"), val |-> 7],
                       [key |-> StrKey("a"), val |-> 42]>>
    /\ arg.base = <<0, 1>>
    /\ outcome = Ok(<<42, 6>>)

(***************************************************************************)
(* C9: in associative mode an unknown key is skipped and its value is      *)
(* consumed and discarded: a map with every declared field exactly once    *)
(* and an unknown key, wherever it stands, decodes to the struct that the  *)
(* map without the unknown key decodes to.                                 *)
(***************************************************************************)
C9_UnknownKeySkipped ==
    (StructDone /\ ~ContextFailed /\ EachFieldOnce /\ UnknownEntries # {})
    => /\ outcome = Ok(ExpectedStruct)
       /\ Len(Calls("next_value")) = Len(arg.entries)

(***************************************************************************)
(* C10: whenever a key naming a declared field f is read while f already   *)
(* holds a decoded value, the decode ends at once with DuplicateField(f),  *)
(* whatever other keys were read before; no struct is returned.            *)
(***************************************************************************)
C10_DuplicateField ==
    [][\A f \in 0..(FIELD_COUNT - 1) :
          (/\ decoder = "struct"
           /\ pc = "map_loop"
           /\ fld[f + 1].some
           /\ Len(log') > Len(log)
           /\ log'[Len(log) + 1] = Event("next_key", f, "some"))
          => (/\ pc' = "done"
              /\ outcome' = DuplicateField(FieldNames[f + 1])
              /\ Len(log') = Len(log) + 1)]_vars

C10_Witness ==
    /\ StructDone
    /\ outcome = DuplicateField("a")
    /\ Len(arg.entries) = 3
    /\ arg.entries[1].key = StrKey("a")
    /\ arg.entries[2].key = StrKey("b")
    /\ arg.entries[3].key = U64Key(0)
    /\ fld[1] = Some(LeafDeserialize(arg.base[1], arg.entries[1].val))

\* the declared fields (from 0) that no entry of the input map names
AbsentFields == {f \in 0..(FIELD_COUNT - 1) : EntriesOf(f) = {}}

\* the map cursor reported the end of the keys
KeysEnded == log # <<>> /\ log[Len(log)] = Event("next_key", -1, "none")

(***************************************************************************)
(* C11: when the map cursor reports the end of the keys and some declared  *)
(* field was never met, the decode fails with MissingField naming a field  *)
(* that was never met; it succeeds only if every declared field was met.   *)
(***************************************************************************)
C11_MissingField ==
    (StructDone /\ KeysEnded) =>
       /\ AbsentFields # {} =>
             /\ outcome.kind = "MissingField"
             /\ \E f \in AbsentFields : outcome.name = FieldNames[f + 1]
             /\ outcome.val = <<>>
       /\ AbsentFields = {} => outcome.kind = "Ok"
       /\ outcome.kind \in {"Ok", "MissingField"}

C11_Witness ==
    /\ StructDone
    /\ KeysEnded
    /\ Len(arg.entries) = 2
    /\ arg.entries[1].key = StrKey("a")
    /\ arg.entries[2].key = StrKey("c")
    /\ outcome = MissingField("b")

StructSeqDone == decoder = "struct_seq" /\ pc = "done"

\* the sequence the positional cursor was given
PhysicalInput == Physical(arg.vals, arg.order)

(***************************************************************************)
(* C12: in positional mode the fields are decoded in declared order, field *)
(* i with the seed derived for it from the base; with only m < N elements  *)
(* the decode fails with InvalidLength(m, struct with N elements), m being *)
(* the number of fields decoded so far; on success exactly N element       *)
(* requests were made and the elements past the N-th were not read.        *)
(***************************************************************************)
C12_Positional ==
    decoder = "struct_seq" =>
    LET rq == Calls("struct.next_element_seed")
        m == Len(PhysicalInput)
    IN /\ Len(rq) <= FIELD_COUNT
       /\ \A i \in 1..Len(rq) : rq[i].a = arg.base[i]
       /\ (pc = "done" /\ ~ContextFailed) =>
             IF m < FIELD_COUNT
             THEN /\ outcome = InvalidLength(m, "struct Foo with {} elements",
                                             FIELD_COUNT, FALSE)
                  /\ encountered_fields = m
                  /\ Len(rq) = m + 1
             ELSE /\ outcome = Ok([i \in 1..FIELD_COUNT |->
                                LeafDeserialize(arg.base[i], PhysicalInput[i])])
                  /\ Len(rq) = FIELD_COUNT
                  /\ seq_in = SubSeq(PhysicalInput, FIELD_COUNT + 1, m)

C12_Witness ==
    /\ StructSeqDone
    /\ ~ContextFailed
    /\ Len(arg.vals) = 1
    /\ outcome.kind = "InvalidLength"
    /\ outcome.len = 1
    /\ outcome.exp = 2

(***************************************************************************)
(* C13 (as claimed): positional mode rejects a permuted input: for the     *)
(* struct (a, b), an input carrying b's value first and a's value second   *)
(* is not decoded successfully, also when a and b have the same type and   *)
(* seeds.                                                                  *)
(***************************************************************************)
C13_PermutationRejected ==
    (/\ StructSeqDone
     /\ ~ContextFailed
     /\ arg.order = "permuted"
     /\ Len(arg.vals) >= FIELD_COUNT
     /\ arg.vals[1] # arg.vals[2])
    => outcome.kind # "Ok"

(***************************************************************************)
(* C13 (amended): positional mode assigns by position and cannot tell a    *)
(* permuted input: an input carrying b's value first and a's value second, *)
(* both values being ones the seeds accept, is decoded successfully, field *)
(* a holding b's value decoded with a's seed and field b holding a's value *)
(* decoded with b's seed; with equal seeds for a and b this is the struct  *)
(* of the declared-order input with the two fields exchanged.              *)
(***************************************************************************)
C13_PermutationByPosition ==
    (/\ StructSeqDone
     /\ ~ContextFailed
     /\ arg.order = "permuted"
     /\ Len(arg.vals) >= FIELD_COUNT
     /\ arg.vals[1] # arg.vals[2])
    => /\ outcome = Ok(<<LeafDeserialize(arg.base[1], arg.vals[2]),
                         LeafDeserialize(arg.base[2], arg.vals[1])>>)
       /\ arg.base[1] = arg.base[2] =>
             /\ outcome.val[1] = LeafDeserialize(arg.base[2], arg.vals[2])
             /\ outcome.val[2] = LeafDeserialize(arg.base[1], arg.vals[1])
             /\ outcome.val[1] # outcome.val[2]

C13_Witness ==
    /\ StructSeqDone
    /\ arg.order = "permuted"
    /\ arg.vals = <<42, 7>>
    /\ arg.base = <<0, 0>>
    /\ outcome = Ok(<<7, 42>>)

EnumDone == decoder = "enum" /\ pc = "done"

\* the discriminant names no declared variant
UnknownName ==
    /\ arg.disc.t \in {"str", "bytes"}
    /\ \A i \in 1..VARIANT_COUNT :
          /\ arg.disc # StrKey(FIELDS[i])
          /\ arg.disc # BytesKey(AsBytes(FIELDS[i]))

\* the discriminant is an ordinal outside [0, N)
OrdinalOutOfRange == arg.disc.t = "u64" /\ arg.disc.n >= VARIANT_COUNT

\* the discriminant is the ordinal, the name or the bytes of the name of
\* the variant with index i
Denotes(i) ==
    \/ arg.disc = U64Key(i)
    \/ arg.disc = StrKey(FIELDS[i + 1])
    \/ arg.disc = BytesKey(AsBytes(FIELDS[i + 1]))

(***************************************************************************)
(* C14 (as claimed): a discriminant given as an ordinal outside [0, N)     *)
(* makes the decode fail with the UnknownVariant error kind, listing the   *)
(* declared variant names, the same kind as for an unknown name.           *)
(***************************************************************************)
C14_OrdinalUnknownVariant ==
    (EnumDone /\ ~ContextFailed /\ OrdinalOutOfRange) =>
       /\ outcome.kind = "UnknownVariant"
       /\ outcome.val = FIELDS

(***************************************************************************)
(* C15: a discriminant given as a name or as identifier bytes that equals  *)
(* no declared variant name, case-sensitively, makes the decode fail with  *)
(* UnknownVariant carrying the offending token and the full list of the    *)
(* declared variant names; no payload is decoded and no derivation         *)
(* function is invoked.                                                    *)
(***************************************************************************)
C15_UnknownName ==
    (decoder = "enum" /\ UnknownName) =>
       /\ Calls("derive_variant") = <<>>
       /\ Calls("newtype_variant_seed") = <<>>
       /\ variant = None
       /\ (pc = "done" /\ ~ContextFailed) =>
             /\ outcome.kind = "UnknownVariant"
             /\ outcome.name = (IF arg.disc.t = "str" THEN arg.disc.s
                                ELSE Utf8Lossy(arg.disc.b))
             /\ outcome.name \notin {FIELDS[i] : i \in 1..VARIANT_COUNT}
             /\ outcome.val = FIELDS

C15_Witness ==
    /\ EnumDone
    /\ arg.disc = BytesKey(<<97>>)
    /\ outcome = UnknownVariant("a", <<"A", "B">>)

(***************************************************************************)
(* C16: a discriminant given as the ordinal i, as the name of variant i or *)
(* as the bytes of that name resolves to i; then exactly one payload       *)
(* decode occurs, with the seed derived for variant i from the base, no    *)
(* derivation function of another variant is invoked, and the result is    *)
(* case i wrapping the decoded payload.                                    *)
(***************************************************************************)
C16_Dispatch ==
    \A i \in 0..(VARIANT_COUNT - 1) :
       (decoder = "enum" /\ Denotes(i)) =>
          /\ variant \in {None, Some(i)}
          /\ \A j \in 1..Len(log) :
                log[j].op = "derive_variant" => log[j].a = i
          /\ Len(Calls("derive_variant")) <= 1
          /\ (pc = "done" /\ ~ContextFailed) =>
                /\ outcome.kind = "Ok"
                /\ outcome.val = EnumCase(i, LeafDeserialize(arg.base[i + 1],
                                                             arg.payload))
                /\ Calls("derive_variant") = <<Event("derive_variant", i, "")>>
                /\ Calls("newtype_variant_seed") =
                      <<Event("newtype_variant_seed", arg.base[i + 1], "some")>>

C16_Witness ==
    /\ EnumDone
    /\ arg.disc = StrKey("B")
    /\ arg.payload = 42
    /\ arg.base = <<1, 0>>
    /\ outcome = Ok(EnumCase(1, 42))

NewtypeDone == decoder = "newtype" /\ pc = "done"

(***************************************************************************)
(* C18: decoding the encoding of SerializableNewtypeStruct(name, payload)  *)
(* with the same name returns exactly the value the inner seed produces    *)
(* from the payload; decoding it with a different name either fails or     *)
(* returns that same value, never a different one.                         *)
(***************************************************************************)
C18_NewtypeRoundTrip ==
    NewtypeDone =>
       /\ (arg.name = arg.written /\ ~ContextFailed) =>
             /\ outcome.kind = "Ok"
             /\ outcome.val = LeafDeserialize(arg.seed, arg.payload)
       /\ arg.name # arg.written =>
             \/ outcome.kind = "Collaborator"
             \/ /\ outcome.kind = "Ok"
                /\ outcome.val = LeafDeserialize(arg.seed, arg.payload)
       /\ outcome.kind = "Ok" => Len(Calls("seed.deserialize")) = 1

C18_Witness ==
    /\ NewtypeDone
    /\ arg.written = "Foo"
    /\ arg.name = "Bar"
    /\ arg.payload = 1
    /\ arg.seed = 1
    /\ outcome.kind = "Ok"
    /\ outcome.val = 0

\* the call on the decoding context logged at position i returned an error
ContextErrorAt(i) == log[i].r \in {"err", "misuse"}

(***************************************************************************)
(* C17: when a call on the decoding context (next element, next key, next  *)
(* value, read discriminant, decode payload) returns an error, the decoder *)
(* returns that error at once: the failed call is the last thing it did    *)
(* (no further context call, no collector call, no further derivation),    *)
(* and what it returns is the error, with no value and no partial          *)
(* accumulator.                                                            *)
(***************************************************************************)
C17_ErrorPropagation ==
    \A i \in 1..Len(log) :
       ContextErrorAt(i) =>
          /\ i = Len(log)
          /\ pc \in {"done", "tup_ret"}
          /\ LET returned == IF pc = "tup_ret" THEN ret ELSE outcome
             IN /\ returned.kind = "Collaborator"
                /\ log[i].r = "err" => returned.name \in {"context", "name"}
                /\ log[i].r = "misuse" =>
                      returned.name = "value not read before next key"
                /\ returned.val = <<>>

C17_Witness ==
    /\ decoder = "tuple"
    /\ pc = "done"
    /\ Len(log) >= 5
    /\ ContextErrorAt(Len(log))
    /\ log[Len(log)].op = "next_element_seed"
    /\ result # <<>>
    /\ outcome = Collaborator("context")

\* the last thing the sequence visitor did before it returned
LastEvent == log[Len(log)]

(***************************************************************************)
(* C19: with a seed stream that never ends, the decode of an input of k    *)
(* elements terminates, after at most k+1 element requests and, when the   *)
(* cursor reports the end of the sequence, after exactly k+1; the loop     *)
(* ends only when (a) the cursor reports no element, (b) the cursor        *)
(* returns an error or (c) the seed stream is exhausted.                   *)
(***************************************************************************)
C19_Termination ==
    /\ arg.seeds.inf ~> SeqDone
    /\ [](arg.seeds.inf =>
            Len(Calls("next_element_seed")) <= Len(arg.elems) + 1)
    /\ []((SeqDone /\ arg.seeds.inf /\ ~ContextFailed) =>
            /\ Len(Calls("next_element_seed")) = Len(arg.elems) + 1
            /\ LastEvent = Event("next_element_seed", arg.seeds.items[1], "none")
            /\ outcome.kind = "Ok")
    /\ [](SeqDone =>
            \/ LastEvent.op = "next_element_seed" /\ LastEvent.r = "none"
            \/ LastEvent.op = "next_element_seed" /\ LastEvent.r = "err"
            \/ LastEvent.op = "seeds.next" /\ LastEvent.r = "none")

C19_Witness ==
    /\ SeqDone
    /\ arg.seeds = RepeatSeeds(1)
    /\ Len(arg.elems) = 3
    /\ Len(Calls("next_element_seed")) = 4
    /\ outcome.kind = "Ok"

\* the seed stream ran out before the cursor reported the end
SeedsExhausted == LastEvent = Event("seeds.next", 0, "none")

(***************************************************************************)
(* C20 (as claimed): whenever the seed stream is exhausted after m seeds   *)
(* were consumed, the error is InvalidLength(m, a sequence of length at    *)
(* most m-1), m-1 computed without underflow; for an empty seed stream     *)
(* (m = 0) the subtraction current_len - 1 does not wrap or trap.          *)
(***************************************************************************)
C20_ExhaustionArithmetic ==
    (SeqDone /\ SeedsExhausted) =>
       /\ outcome.kind = "InvalidLength"
       /\ outcome.len = Len(arg.seeds.items)
       /\ outcome.exp = outcome.len - 1
       /\ ~outcome.wrapped

\* the positions in the log of the next_key calls that returned a key
KeyReturns ==
    {i \in 1..Len(log) : log[i].op = "next_key" /\ log[i].r = "some"}

\* a next_value call is logged strictly between positions i and j
ValueReadBetween(i, j) ==
    \E k \in (i + 1)..(j - 1) : log[k].op = "next_value"

(***************************************************************************)
(* C21 (as claimed): in visit_map every next_key call that returns a key,  *)
(* known or unknown, is followed by exactly one next_value call before the *)
(* next next_key call or before success is returned; there are never two   *)
(* consecutive next_key calls with the pending value left unread.          *)
(***************************************************************************)
C21_KeyThenValue ==
    decoder = "struct" =>
       /\ \A i \in KeyReturns :
             \A j \in (i + 1)..Len(log) :
                log[j].op = "next_key" => ValueReadBetween(i, j)
       /\ (pc = "done" /\ outcome.kind = "Ok") =>
             Len(Calls("next_value")) = Cardinality(KeyReturns)

\* no call on the map cursor failed, for either reason
CursorFailed == \E i \in 1..Len(log) : log[i].r \in {"err", "misuse"}

\* the first entry, in input order, naming a field that an earlier entry
\* already named (0: none)
FirstRepeat ==
    LET reps == {i \in 1..Len(arg.entries) :
                   /\ FieldVisitor(arg.entries[i].key).some
                   /\ \E j \in 1..(i - 1) :
                         FieldVisitor(arg.entries[j].key) =
                         FieldVisitor(arg.entries[i].key)}
    IN IF reps = {} THEN 0
       ELSE CHOOSE i \in reps : \A k \in reps : i <= k

(***************************************************************************)
(* C22: a duplicate key is reported when its second occurrence is read:    *)
(* before the value of that occurrence is decoded, before the field's seed *)
(* is derived a second time and before any missing-field check, so a map   *)
(* with field a twice and field b absent yields DuplicateField(a) and not  *)
(* MissingField(b); when several declared fields are absent, MissingField  *)
(* names the first of them in declaration order.                           *)
(***************************************************************************)
C22_ErrorPrecedence ==
    (StructDone /\ ~CursorFailed) =>
       IF FirstRepeat # 0
       THEN LET f == FieldVisitor(arg.entries[FirstRepeat].key).v IN
            /\ outcome = DuplicateField(FieldNames[f + 1])
            /\ log[Len(log)] = Event("next_key", f, "some")
            /\ Cardinality(KeyReturns) = FirstRepeat
            /\ Len(SelectSeq(log, LAMBDA e : e = Event("derive_field", f, ""))) = 1
            /\ Len(Calls("next_value")) = Len(Calls("derive_field"))
            /\ \A i \in 1..Len(log) : log[i] # Event("next_key", -1, "none")
       ELSE /\ KeysEnded
            /\ AbsentFields # {} =>
                  /\ outcome.kind = "MissingField"
                  /\ \E f \in AbsentFields :
                        /\ outcome.name = FieldNames[f + 1]
                        /\ \A g \in AbsentFields : f <= g

C22_Witness ==
    /\ StructDone
    /\ ~CursorFailed
    /\ Len(arg.entries) = 2
    /\ arg.entries[1].key = StrKey("a")
    /\ arg.entries[2].key = U64Key(0)
    /\ AbsentFields = {1}
    /\ outcome = DuplicateField("a")

====
